---- MODULE Spec2Model ----
(***************************************************************************)
(* The cancelable task of package gorace (src/gorace.go): one goCancelable *)
(* shared by client goroutines, the goroutines of StartBackground, the     *)
(* handler goroutine launched by Start, the sub-goroutines the handler     *)
(* spawns, and one consumer reading the channel returned by Receive.       *)
(* Every goroutine advances one statement at a time; sync.Mutex and the    *)
(* capacity-1 channel are modelled by their blocking rules.                *)
(***************************************************************************)
EXTENDS Integers, Sequences, FiniteSets, TLC

(* ------------------------------ bounds -------------------------------- *)

\* client goroutines, each making one call of the public API
NClients == 2
\* sub-goroutines a handler spawns, each calling Send once
NSub == 2
\* iterations of the handler loop  Send(i); Cancel()
NLoop == 2

(* -------------------------- program constants -------------------------- *)

\* make(chan interface{}, 1)
ChanCap == 1
\* the nil interface value (zero value of lastResult)
Nil == -1

(* ------------------------------ goroutines ----------------------------- *)

Clients == {<<"client", i>> : i \in 1..NClients}
\* the goroutine  go gc.Start(ctx)  of client i, if it calls StartBackground
Bgs == {<<"bg", i>> : i \in 1..NClients}
Subs == {<<"sub", i>> : i \in 1..NSub}
Handler == <<"handler", 0>>
Consumer == <<"consumer", 0>>
NoOne == <<"none", 0>>
Acts == Clients \cup Bgs \cup Subs \cup {Handler, Consumer}

\* the handlers of the tests, and one that panics
HandlerKinds == {"RapidSend", "SendWait", "SendCancelLoop", "Panic"}
\* the consumer ranges over Receive() until closure, or gives up and cancels
ConsumerKinds == {"Range", "Abandon"}

VARIABLES
    canceled,       \* gc.canceled
    started,        \* gc.started
    lastResult,     \* gc.lastResult
    mu,             \* gc.mu: the goroutine holding it, or NoOne
    buf,            \* gc.send: the buffered values
    closed,         \* gc.send: closed
    pc,             \* the statement each goroutine is at
    isCanceledRet,  \* what the latest IsCanceled call returned
    lastResultRet,  \* what the latest LastResult call returned
    hi,             \* the handler's loop counter i
    hreturned,      \* the handler function has returned or panicked (deferred Cancel runs)
    handlerKind,    \* the handler given to GoRace
    consumerKind,   \* how the consumer reads
    crash,          \* the panic that ended the process, or "none"
    closes,         \* history: executions of close(gc.send)
    launches,       \* history: handler goroutines launched
    trueCancels,    \* history: cancel() calls that returned true
    falseFirst,     \* history: a cancel() returned false before any returned true
    startBeforeCancel, \* history: a Start body ran while canceled was false
    externalCancel, \* history: a client or the consumer has called Cancel
    cancelReturned, \* history: some Cancel call has returned
    accepted,       \* history: values for which Send found canceled = false, in order
    received        \* history: values the consumer received, in order

prog == <<canceled, started, lastResult, mu, buf, closed>>
ctl == <<pc, isCanceledRet, lastResultRet, hi, hreturned, handlerKind, consumerKind, crash>>
hist == <<closes, launches, trueCancels, falseFirst, startBeforeCancel, externalCancel,
          cancelReturned, accepted, received>>
vars == <<prog, ctl, hist>>

Kind(a) == a[1]

\* the argument of the Send a goroutine makes: sub-goroutine i sends i, the
\* handler loop sends its counter
SendArg(a) == IF Kind(a) = "sub" THEN a[2] ELSE hi

Goto(a, l) == pc' = [pc EXCEPT ![a] = l]

\* goroutine a is at statement l, and the process has not ended in a panic
At(a, l) == crash = "none" /\ pc[a] = l

(* ------------------------------- GoRace -------------------------------- *)

GoRace ==
    /\ canceled = FALSE
    /\ started = FALSE
    /\ lastResult = Nil
    /\ mu = NoOne
    /\ buf = <<>>
    /\ closed = FALSE

Init ==
    /\ GoRace
    /\ handlerKind \in HandlerKinds
    /\ consumerKind \in ConsumerKinds
    /\ pc = [a \in Acts |->
               CASE Kind(a) = "client" -> "idle"
                 [] Kind(a) = "bg" -> "unborn"
                 [] Kind(a) = "sub" -> "unborn"
                 [] Kind(a) = "handler" -> "unborn"
                 [] OTHER -> "recv"]
    /\ isCanceledRet = FALSE
    /\ lastResultRet = Nil
    /\ hi = 0
    /\ hreturned = FALSE
    /\ crash = "none"
    /\ closes = 0
    /\ launches = 0
    /\ trueCancels = 0
    /\ falseFirst = FALSE
    /\ startBeforeCancel = FALSE
    /\ externalCancel = FALSE
    /\ cancelReturned = FALSE
    /\ accepted = <<>>
    /\ received = <<>>

(* ------------------------------ sync.Mutex ----------------------------- *)

\* gc.mu.Lock() by a goroutine at statement l: blocks while the mutex is held
Lock(a, l) == At(a, l) /\ mu = NoOne

\* where a goroutine is before it calls a method that starts with gc.mu.Lock():
\* a client makes the call from "idle", a goroutine spawned for the call is at l
Entry(a, l) == IF Kind(a) = "client" THEN "idle" ELSE l

(***************************************************************************)
(* A critical section that neither blocks nor touches the channel is one   *)
(* step: the goroutines that could see its middle wait for the mutex.  The *)
(* steps that touch the channel (close, send), which the consumer sees     *)
(* without the mutex, are steps of their own, taken with the mutex held.   *)
(***************************************************************************)

(* ------------------------------- Cancel -------------------------------- *)

\* where a goroutine continues when its Cancel call has returned
AfterCancel(a) ==
    CASE Kind(a) = "client" -> "finished"
      [] Kind(a) = "consumer" -> "done"
      [] OTHER -> IF hreturned THEN "exit" ELSE "loop_next"

\* cancel() as it would be without  gc.canceled = true
cancel_flag_NoSet(a) ==
    /\ Lock(a, "Cancel_lock")
    /\ IF ~canceled
         THEN /\ mu' = a
              /\ Goto(a, "cancel_close")
              /\ UNCHANGED <<falseFirst, cancelReturned>>
         ELSE /\ UNCHANGED mu
              /\ Goto(a, AfterCancel(a))
              /\ falseFirst' = (falseFirst \/ trueCancels = 0)
              /\ cancelReturned' = TRUE
    /\ UNCHANGED <<canceled, started, lastResult, buf, closed>>
    /\ UNCHANGED <<isCanceledRet, lastResultRet, hi, hreturned, handlerKind, consumerKind,
                   crash>>
    /\ UNCHANGED <<closes, launches, trueCancels, startBeforeCancel, externalCancel,
                   accepted, received>>

\* Cancel: gc.mu.Lock(); cancel(): if !gc.canceled { gc.canceled = true ...
\* } else { return false }, the latter with the deferred Unlock and the return
cancel_flag(a) ==
    /\ Lock(a, "Cancel_lock")
    /\ IF ~canceled
         THEN /\ canceled' = TRUE
              /\ mu' = a
              /\ Goto(a, "cancel_close")
              /\ UNCHANGED <<falseFirst, cancelReturned>>
         ELSE /\ UNCHANGED <<canceled, mu>>
              /\ Goto(a, AfterCancel(a))
              /\ falseFirst' = (falseFirst \/ trueCancels = 0)
              /\ cancelReturned' = TRUE
    /\ UNCHANGED <<started, lastResult, buf, closed>>
    /\ UNCHANGED <<isCanceledRet, lastResultRet, hi, hreturned, handlerKind, consumerKind,
                   crash>>
    /\ UNCHANGED <<closes, launches, trueCancels, startBeforeCancel, externalCancel,
                   accepted, received>>

\* cancel() as it would be without  close(gc.send)
cancel_close_NoClose(a) ==
    /\ At(a, "cancel_close")
    /\ trueCancels' = trueCancels + 1
    /\ Goto(a, "Cancel_unlock")
    /\ UNCHANGED <<canceled, started, lastResult, mu, buf, closed>>
    /\ UNCHANGED <<isCanceledRet, lastResultRet, hi, hreturned, handlerKind, consumerKind,
                   crash>>
    /\ UNCHANGED <<closes, launches, falseFirst, startBeforeCancel, externalCancel,
                   cancelReturned, accepted, received>>

\* cancel(): close(gc.send); return true.  Closing a closed channel panics.
cancel_close(a) ==
    /\ At(a, "cancel_close")
    /\ closes' = closes + 1
    /\ IF closed
         THEN /\ crash' = "close of closed channel"
              /\ UNCHANGED <<closed, pc, trueCancels>>
         ELSE /\ closed' = TRUE
              /\ trueCancels' = trueCancels + 1
              /\ Goto(a, "Cancel_unlock")
              /\ UNCHANGED crash
    /\ UNCHANGED <<canceled, started, lastResult, mu, buf>>
    /\ UNCHANGED <<isCanceledRet, lastResultRet, hi, hreturned, handlerKind, consumerKind>>
    /\ UNCHANGED <<launches, falseFirst, startBeforeCancel, externalCancel,
                   cancelReturned, accepted, received>>

\* the deferred gc.mu.Unlock() of a Cancel that closed the channel, and its return
Cancel_Unlock(a) ==
    /\ At(a, "Cancel_unlock")
    /\ mu' = NoOne
    /\ Goto(a, AfterCancel(a))
    /\ cancelReturned' = TRUE
    /\ UNCHANGED <<canceled, started, lastResult, buf, closed>>
    /\ UNCHANGED <<isCanceledRet, lastResultRet, hi, hreturned, handlerKind, consumerKind,
                   crash>>
    /\ UNCHANGED <<closes, launches, trueCancels, falseFirst, startBeforeCancel,
                   externalCancel, accepted, received>>

Cancel(a) == cancel_flag(a) \/ cancel_close(a) \/ Cancel_Unlock(a)

(* -------------------------------- Send --------------------------------- *)

AfterSend(a) == IF Kind(a) = "sub" THEN "done" ELSE "sent"

\* Send as it would be without the test of gc.canceled
Send_Check_NoTest(a) ==
    /\ Lock(a, "Send_lock")
    /\ lastResult' = SendArg(a)
    /\ accepted' = Append(accepted, SendArg(a))
    /\ mu' = a
    /\ Goto(a, "Send_write")
    /\ UNCHANGED <<canceled, started, buf, closed>>
    /\ UNCHANGED <<isCanceledRet, lastResultRet, hi, hreturned, handlerKind, consumerKind,
                   crash>>
    /\ UNCHANGED <<closes, launches, trueCancels, falseFirst, startBeforeCancel,
                   externalCancel, cancelReturned, received>>

\* Send as it would be if it released the mutex before writing to the channel
Send_Check_Unlocked(a) ==
    /\ Lock(a, "Send_lock")
    /\ IF ~canceled
         THEN /\ lastResult' = SendArg(a)
              /\ accepted' = Append(accepted, SendArg(a))
              /\ Goto(a, "Send_write")
         ELSE /\ Goto(a, AfterSend(a))
              /\ UNCHANGED <<lastResult, accepted>>
    /\ UNCHANGED <<canceled, started, mu, buf, closed>>
    /\ UNCHANGED <<isCanceledRet, lastResultRet, hi, hreturned, handlerKind, consumerKind,
                   crash>>
    /\ UNCHANGED <<closes, launches, trueCancels, falseFirst, startBeforeCancel,
                   externalCancel, cancelReturned, received>>

\* Send as it would be if it assigned gc.lastResult before testing gc.canceled
Send_Check_SetBeforeTest(a) ==
    /\ Lock(a, "Send_lock")
    /\ lastResult' = SendArg(a)
    /\ IF ~canceled
         THEN /\ accepted' = Append(accepted, SendArg(a))
              /\ mu' = a
              /\ Goto(a, "Send_write")
         ELSE /\ Goto(a, AfterSend(a))
              /\ UNCHANGED <<accepted, mu>>
    /\ UNCHANGED <<canceled, started, buf, closed>>
    /\ UNCHANGED <<isCanceledRet, lastResultRet, hi, hreturned, handlerKind, consumerKind,
                   crash>>
    /\ UNCHANGED <<closes, launches, trueCancels, falseFirst, startBeforeCancel,
                   externalCancel, cancelReturned, received>>

\* Send as it would be without  gc.lastResult = result
Send_Check_NoLastResult(a) ==
    /\ Lock(a, "Send_lock")
    /\ IF ~canceled
         THEN /\ accepted' = Append(accepted, SendArg(a))
              /\ mu' = a
              /\ Goto(a, "Send_write")
         ELSE /\ Goto(a, AfterSend(a))
              /\ UNCHANGED <<accepted, mu>>
    /\ UNCHANGED <<canceled, started, lastResult, buf, closed>>
    /\ UNCHANGED <<isCanceledRet, lastResultRet, hi, hreturned, handlerKind, consumerKind,
                   crash>>
    /\ UNCHANGED <<closes, launches, trueCancels, falseFirst, startBeforeCancel,
                   externalCancel, cancelReturned, received>>

\* Send: gc.mu.Lock(); if !gc.canceled { gc.lastResult = result ... }; a Send
\* that finds the task canceled unlocks and returns
Send_Check(a) ==
    /\ Lock(a, "Send_lock")
    /\ IF ~canceled
         THEN /\ lastResult' = SendArg(a)
              /\ accepted' = Append(accepted, SendArg(a))
              /\ mu' = a
              /\ Goto(a, "Send_write")
         ELSE /\ Goto(a, AfterSend(a))
              /\ UNCHANGED <<lastResult, accepted, mu>>
    /\ UNCHANGED <<canceled, started, buf, closed>>
    /\ UNCHANGED <<isCanceledRet, lastResultRet, hi, hreturned, handlerKind, consumerKind,
                   crash>>
    /\ UNCHANGED <<closes, launches, trueCancels, falseFirst, startBeforeCancel,
                   externalCancel, cancelReturned, received>>

\* the channel write as a non-blocking send, which drops the value when the
\* buffer is full:  select { case gc.send <- result: default: }
Send_Write_NonBlocking(a) ==
    /\ At(a, "Send_write")
    /\ IF closed
         THEN /\ crash' = "send on closed channel"
              /\ UNCHANGED <<buf, pc>>
         ELSE /\ buf' = IF Len(buf) < ChanCap THEN Append(buf, SendArg(a)) ELSE buf
              /\ Goto(a, "Send_unlock")
              /\ UNCHANGED crash
    /\ UNCHANGED <<canceled, started, lastResult, mu, closed>>
    /\ UNCHANGED <<isCanceledRet, lastResultRet, hi, hreturned, handlerKind, consumerKind>>
    /\ UNCHANGED hist

\* gc.send <- result, with the mutex held: blocks while the buffer is full,
\* panics on a closed channel
Send_Write(a) ==
    /\ At(a, "Send_write")
    /\ IF closed
         THEN /\ crash' = "send on closed channel"
              /\ UNCHANGED <<buf, pc>>
         ELSE /\ Len(buf) < ChanCap
              /\ buf' = Append(buf, SendArg(a))
              /\ Goto(a, "Send_unlock")
              /\ UNCHANGED crash
    /\ UNCHANGED <<canceled, started, lastResult, mu, closed>>
    /\ UNCHANGED <<isCanceledRet, lastResultRet, hi, hreturned, handlerKind, consumerKind>>
    /\ UNCHANGED hist

\* the deferred gc.mu.Unlock() of a Send that wrote its value, and its return
Send_Unlock(a) ==
    /\ At(a, "Send_unlock")
    /\ mu' = NoOne
    /\ Goto(a, AfterSend(a))
    /\ UNCHANGED <<canceled, started, lastResult, buf, closed>>
    /\ UNCHANGED <<isCanceledRet, lastResultRet, hi, hreturned, handlerKind, consumerKind,
                   crash>>
    /\ UNCHANGED hist

Send(a) == Send_Check(a) \/ Send_Write(a) \/ Send_Unlock(a)

(* -------------------------------- Start -------------------------------- *)

\* Start as it would be without the test of gc.started
Start_NoStartedTest(a) ==
    /\ Lock(a, Entry(a, "Start_lock"))
    /\ IF ~canceled
         THEN /\ started' = TRUE
              /\ pc' = [pc EXCEPT ![a] = "finished", ![Handler] = "run"]
              /\ launches' = launches + 1
         ELSE /\ Goto(a, "finished")
              /\ UNCHANGED <<started, launches>>
    /\ startBeforeCancel' = (startBeforeCancel \/ ~canceled)
    /\ UNCHANGED <<canceled, lastResult, mu, buf, closed>>
    /\ UNCHANGED <<isCanceledRet, lastResultRet, hi, hreturned, handlerKind, consumerKind,
                   crash>>
    /\ UNCHANGED <<closes, trueCancels, falseFirst, externalCancel,
                   cancelReturned, accepted, received>>

\* Start as it would be without the test of gc.canceled
Start_NoCanceledTest(a) ==
    /\ Lock(a, Entry(a, "Start_lock"))
    /\ IF ~started
         THEN /\ started' = TRUE
              /\ pc' = [pc EXCEPT ![a] = "finished", ![Handler] = "run"]
              /\ launches' = launches + 1
         ELSE /\ Goto(a, "finished")
              /\ UNCHANGED <<started, launches>>
    /\ startBeforeCancel' = (startBeforeCancel \/ ~canceled)
    /\ UNCHANGED <<canceled, lastResult, mu, buf, closed>>
    /\ UNCHANGED <<isCanceledRet, lastResultRet, hi, hreturned, handlerKind, consumerKind,
                   crash>>
    /\ UNCHANGED <<closes, trueCancels, falseFirst, externalCancel,
                   cancelReturned, accepted, received>>

\* Start: under the mutex, if !gc.canceled && !gc.started { gc.started = true;
\* go func() { defer gc.Cancel(); gc.handler(ctx, gc) }() }; return gc
Start(a) ==
    /\ Lock(a, Entry(a, "Start_lock"))
    /\ IF ~canceled /\ ~started
         THEN /\ started' = TRUE
              /\ pc' = [pc EXCEPT ![a] = "finished", ![Handler] = "run"]
              /\ launches' = launches + 1
         ELSE /\ Goto(a, "finished")
              /\ UNCHANGED <<started, launches>>
    /\ startBeforeCancel' = (startBeforeCancel \/ ~canceled)
    /\ UNCHANGED <<canceled, lastResult, mu, buf, closed>>
    /\ UNCHANGED <<isCanceledRet, lastResultRet, hi, hreturned, handlerKind, consumerKind,
                   crash>>
    /\ UNCHANGED <<closes, trueCancels, falseFirst, externalCancel,
                   cancelReturned, accepted, received>>

(* ------------------------ IsCanceled, LastResult ------------------------ *)

\* IsCanceled as it would be if it returned gc.started
IsCanceled_ReturnsStarted(a) ==
    /\ Lock(a, "idle")
    /\ isCanceledRet' = started
    /\ Goto(a, "finished")
    /\ UNCHANGED prog
    /\ UNCHANGED <<lastResultRet, hi, hreturned, handlerKind, consumerKind, crash>>
    /\ UNCHANGED hist

\* IsCanceled: under the mutex, return gc.canceled
IsCanceled(a) ==
    /\ Lock(a, "idle")
    /\ isCanceledRet' = canceled
    /\ Goto(a, "finished")
    /\ UNCHANGED prog
    /\ UNCHANGED <<lastResultRet, hi, hreturned, handlerKind, consumerKind, crash>>
    /\ UNCHANGED hist

\* LastResult: under the mutex, return gc.lastResult
LastResult(a) ==
    /\ Lock(a, "idle")
    /\ lastResultRet' = lastResult
    /\ Goto(a, "finished")
    /\ UNCHANGED prog
    /\ UNCHANGED <<isCanceledRet, hi, hreturned, handlerKind, consumerKind, crash>>
    /\ UNCHANGED hist

(* --------------------------- StartBackground --------------------------- *)

\* go gc.Start(ctx); return gc: the caller does not wait for Start
StartBackground(c) ==
    /\ At(c, "idle")
    /\ pc' = [pc EXCEPT ![c] = "finished", ![<<"bg", c[2]>>] = "Start_lock"]
    /\ UNCHANGED prog
    /\ UNCHANGED <<isCanceledRet, lastResultRet, hi, hreturned, handlerKind, consumerKind,
                   crash>>
    /\ UNCHANGED hist

(* ------------------------------- clients ------------------------------- *)

\* a client goroutine calls Cancel
CallCancel(c) ==
    /\ At(c, "idle")
    /\ Goto(c, "Cancel_lock")
    /\ externalCancel' = TRUE
    /\ UNCHANGED prog
    /\ UNCHANGED <<isCanceledRet, lastResultRet, hi, hreturned, handlerKind, consumerKind,
                   crash>>
    /\ UNCHANGED <<closes, launches, trueCancels, falseFirst, startBeforeCancel,
                   cancelReturned, accepted, received>>

(* ------------------------------ handlers ------------------------------- *)

\* for i := 0; i < 50; i++ { go func() { cancelable.Send(result) }() }: the
\* body of the spawned goroutine is its call of Send, so the goroutine is
\* born at the entry of Send, about to take the mutex
HandlerSpawn ==
    /\ At(Handler, "run")
    /\ handlerKind \in {"RapidSend", "SendWait"}
    /\ hi < NSub
    /\ hi' = hi + 1
    /\ Goto(<<"sub", hi + 1>>, "Send_lock")
    /\ UNCHANGED prog
    /\ UNCHANGED <<isCanceledRet, lastResultRet, hreturned, handlerKind, consumerKind,
                   crash>>
    /\ UNCHANGED <<closes, launches, trueCancels, falseFirst, startBeforeCancel,
                   externalCancel, cancelReturned, accepted, received>>

\* for i := 0; i < 50; i++ { cancelable.Send(i); ...
HandlerLoopSend ==
    /\ At(Handler, "run")
    /\ handlerKind = "SendCancelLoop"
    /\ hi < NLoop
    /\ Goto(Handler, "Send_lock")
    /\ UNCHANGED prog
    /\ UNCHANGED <<isCanceledRet, lastResultRet, hi, hreturned, handlerKind,
                   consumerKind, crash>>
    /\ UNCHANGED <<closes, launches, trueCancels, falseFirst, startBeforeCancel,
                   externalCancel, cancelReturned, accepted, received>>

\* ... cancelable.Cancel() ...
HandlerLoopCancel ==
    /\ At(Handler, "sent")
    /\ Goto(Handler, "Cancel_lock")
    /\ UNCHANGED prog
    /\ UNCHANGED <<isCanceledRet, lastResultRet, hi, hreturned, handlerKind,
                   consumerKind, crash>>
    /\ UNCHANGED <<closes, launches, trueCancels, falseFirst, startBeforeCancel,
                   externalCancel, cancelReturned, accepted, received>>

\* ... i++ }
HandlerLoopNext ==
    /\ At(Handler, "loop_next")
    /\ hi' = hi + 1
    /\ Goto(Handler, "run")
    /\ UNCHANGED prog
    /\ UNCHANGED <<isCanceledRet, lastResultRet, hreturned, handlerKind,
                   consumerKind, crash>>
    /\ UNCHANGED hist

\* the handler's work is over: wg.Wait() has returned for the handler that
\* waits for its sub-goroutines, the loop has ended for the others
HandlerFinished ==
    CASE handlerKind = "RapidSend" -> hi = NSub
      [] handlerKind = "SendWait" -> hi = NSub /\ \A s \in Subs : pc[s] = "done"
      [] handlerKind = "SendCancelLoop" -> hi = NLoop
      [] OTHER -> FALSE

\* the handler returns, or panics: defer gc.Cancel() runs in both cases
HandlerReturn ==
    /\ At(Handler, "run")
    /\ HandlerFinished \/ handlerKind = "Panic"
    /\ hreturned' = TRUE
    /\ Goto(Handler, "Cancel_lock")
    /\ UNCHANGED prog
    /\ UNCHANGED <<isCanceledRet, lastResultRet, hi, handlerKind, consumerKind,
                   crash>>
    /\ UNCHANGED <<closes, launches, trueCancels, falseFirst, startBeforeCancel,
                   externalCancel, cancelReturned, accepted, received>>

\* the goroutine of Start ends once the deferred Cancel has returned.  Start
\* holds no recover(): a panic of the handler goes on unwinding the goroutine
\* and ends the process
HandlerExit ==
    /\ At(Handler, "exit")
    /\ IF handlerKind = "Panic"
         THEN /\ crash' = "handler panic"
              /\ UNCHANGED pc
         ELSE /\ Goto(Handler, "done")
              /\ UNCHANGED crash
    /\ UNCHANGED prog
    /\ UNCHANGED <<isCanceledRet, lastResultRet, hi, hreturned, handlerKind,
                   consumerKind>>
    /\ UNCHANGED hist

HandlerStep ==
    \/ HandlerSpawn
    \/ HandlerLoopSend
    \/ HandlerLoopCancel
    \/ HandlerLoopNext
    \/ HandlerReturn
    \/ HandlerExit

(* ------------------------------- consumer ------------------------------ *)

\* for result := range cancelable.Receive(): a buffered value is received,
\* also from a closed channel; the loop ends on a closed and empty channel
Receive ==
    /\ At(Consumer, "recv")
    /\ IF Len(buf) > 0
         THEN /\ received' = Append(received, Head(buf))
              /\ buf' = Tail(buf)
              /\ UNCHANGED pc
         ELSE /\ closed
              /\ Goto(Consumer, "closed")
              /\ UNCHANGED <<received, buf>>
    /\ UNCHANGED <<canceled, started, lastResult, mu, closed>>
    /\ UNCHANGED <<isCanceledRet, lastResultRet, hi, hreturned, handlerKind,
                   consumerKind, crash>>
    /\ UNCHANGED <<closes, launches, trueCancels, falseFirst, startBeforeCancel,
                   externalCancel, cancelReturned, accepted>>

\* case <-time.After(...): cancelable.Cancel(): the consumer stops reading
ConsumerAbandon ==
    /\ At(Consumer, "recv")
    /\ consumerKind = "Abandon"
    /\ Goto(Consumer, "Cancel_lock")
    /\ externalCancel' = TRUE
    /\ UNCHANGED prog
    /\ UNCHANGED <<isCanceledRet, lastResultRet, hi, hreturned, handlerKind,
                   consumerKind, crash>>
    /\ UNCHANGED <<closes, launches, trueCancels, falseFirst, startBeforeCancel,
                   cancelReturned, accepted, received>>

(* ----------------------------- specification --------------------------- *)

Next ==
    \/ \E a \in Clients \cup {Handler, Consumer} : Cancel(a)
    \/ \E a \in Subs \cup {Handler} : Send(a)
    \/ \E a \in Clients \cup Bgs : Start(a)
    \/ \E c \in Clients : StartBackground(c)
    \/ \E c \in Clients : CallCancel(c)
    \/ \E c \in Clients : IsCanceled(c)
    \/ \E c \in Clients : LastResult(c)
    \/ HandlerStep
    \/ Receive
    \/ ConsumerAbandon

Spec == Init /\ [][Next]_vars

\* every goroutine is bounded, so fairness of the scheduler amounts to: the
\* program goes on while some goroutine can take a step
FairSpec == Spec /\ WF_vars(Next)

(* ------------------------------- helpers ------------------------------- *)

\* the values of a sequence
Values(q) == {q[i] : i \in 1..Len(q)}

\* the program has come to rest: no goroutine can take a step
AtRest == ~ENABLED Next

\* some goroutine is in Send with the mutex held, at the channel write
SendAtWrite == \E a \in Subs \cup {Handler} : pc[a] = "Send_write"

(* ------------------------------- C1 ------------------------------------ *)

\* C1: no Send ever writes to the result channel after it has been closed: no
\* goroutine is at the channel write of Send while the channel is closed, and
\* the process never ends in the panic "send on closed channel".
C1_NoSendOnClosedChannel ==
    /\ crash # "send on closed channel"
    /\ \A a \in Subs \cup {Handler} : pc[a] = "Send_write" => ~closed

\* a Send was accepted and written, the channel was closed, and another Send
\* that came after the closure returned without writing
C1_Witness ==
    /\ closed
    /\ accepted # <<>>
    /\ \E s \in Subs : pc[s] = "done" /\ SendArg(s) \notin Values(accepted)

(* ------------------------------- C2 ------------------------------------ *)

\* a Cancel call of goroutine a returns false in this step
CancelReturnsFalse(a) ==
    /\ pc[a] = "Cancel_lock"
    /\ pc'[a] = AfterCancel(a)

C2_Once ==
    /\ closes <= 1
    /\ trueCancels <= 1
    /\ ~falseFirst
    /\ crash # "close of closed channel"
    /\ trueCancels = 1 => canceled /\ closed

C2_NoMutation ==
    \A a \in Clients \cup {Handler, Consumer} :
        CancelReturnsFalse(a) =>
            UNCHANGED <<canceled, started, lastResult, mu, buf, closed>>

\* C2: Cancel is idempotent under concurrency: close(gc.send) is executed at
\* most once, at most one Cancel returns true, no Cancel returns false before
\* one has returned true (so the first Cancel to run is the one that returns
\* true and closes the channel), and a Cancel that returns false changes no
\* field of the task.
C2_CancelIdempotent == []C2_Once /\ [][C2_NoMutation]_vars

\* the deferred Cancel of the handler and the Cancel of the consumer have both
\* returned, one of them with true
C2_Witness ==
    /\ pc[Handler] = "done"
    /\ pc[Consumer] = "done"
    /\ trueCancels = 1

(* ------------------------------- C3 ------------------------------------ *)

\* C3: the handler is launched at most once, and exactly once when some Start
\* ran while the task was not canceled; started tells whether it was launched.
C3_HandlerLaunchedAtMostOnce ==
    /\ launches <= 1
    /\ startBeforeCancel => launches = 1
    /\ started <=> launches = 1

\* two goroutines of StartBackground have both run Start, and the handler runs
C3_Witness ==
    /\ \A b \in {<<"bg", 1>>, <<"bg", 2>>} : pc[b] = "finished"
    /\ launches = 1

(* ------------------------------- C4 ------------------------------------ *)

\* C4: a panic of the handler does not end the process, and the task ends
\* canceled with its channel closed exactly once: with a panicking handler the
\* process never crashes, close(gc.send) runs at most once, and once the
\* deferred Cancel has returned the task is canceled and the channel closed.
C4_HandlerPanicContained ==
    handlerKind = "Panic" =>
        /\ crash = "none"
        /\ closes <= 1
        /\ pc[Handler] = "exit" => canceled /\ closed

(* ------------------------------- C5 ------------------------------------ *)

\* goroutine c has called Cancel and waits for the mutex, which a Send holds
\* while blocked on the full channel; the consumer has stopped reading, so
\* nothing will ever empty the channel
CancelStuckBehindSend(c) ==
    /\ pc[c] = "Cancel_lock"
    /\ mu \in Subs \cup {Handler}
    /\ pc[mu] = "Send_write"
    /\ Len(buf) = ChanCap
    /\ ~closed
    /\ pc[Consumer] # "recv"

\* C5: a Cancel call may be issued at any time and returns: no Cancel caller
\* ever waits for the mutex behind a Send that is blocked on the full channel
\* with nobody left to read it.
C5_CancelNeverStuckBehindSend ==
    \A c \in Clients \cup {Handler, Consumer} : ~CancelStuckBehindSend(c)

(* ------------------------------- C6 ------------------------------------ *)

\* C6: when the handler has returned without calling Cancel, the task becomes
\* canceled and the channel closed: the program never comes to rest with the
\* handler returned and the task not canceled or the channel still open.
C6_CanceledAfterHandlerReturns ==
    (hreturned /\ handlerKind \in {"RapidSend", "SendWait"} /\ AtRest) =>
        canceled /\ closed

(* ------------------------------- C7 ------------------------------------ *)

\* once a Cancel call has returned, a step leaves lastResult alone, accepts no
\* value, and puts no Send at the channel write
C7_SendDropped ==
    cancelReturned =>
        /\ lastResult' = lastResult
        /\ accepted' = accepted
        /\ \A a \in Subs \cup {Handler} : pc'[a] # "Send_write"

\* once a Cancel call has returned with no value accepted, the field is nil
\* and every LastResult call that returns, returns nil
C7_NilForever ==
    (cancelReturned /\ accepted = <<>>) =>
        /\ lastResult = Nil
        /\ lastResultRet' # lastResultRet => lastResultRet' = Nil

\* C7: after a Cancel call has returned, every Send returns without reaching
\* the channel write (so it cannot block on the channel) and leaves lastResult
\* unchanged; if Cancel returned before any Send was accepted, LastResult
\* returns nil from then on.
C7_SendAfterCancelIsNoOp ==
    /\ [](cancelReturned => ~SendAtWrite)
    /\ [][C7_SendDropped /\ C7_NilForever]_vars

\* Cancel returned before any Send was accepted, the handler ran all the same
\* and the Sends of its sub-goroutines have returned
C7_Witness ==
    /\ cancelReturned
    /\ launches = 1
    /\ accepted = <<>>
    /\ lastResult = Nil
    /\ \A s \in Subs : pc[s] = "done"

(* ------------------------------- C8 ------------------------------------ *)

\* value v is observable to a consumer that has read the channel until its
\* closure: it was received, or LastResult returns it
Observable(v) == v \in Values(received) \/ lastResult = v

\* values whose Send was called before any Cancel was called: while no client
\* and no consumer has called Cancel, the only Cancel call is the deferred one
\* of the handler, which a handler spawning sub-goroutines makes after it has
\* spawned them all, so the Send of every spawned sub-goroutine came before it
SendsBeforeCancel ==
    IF ~externalCancel /\ handlerKind \in {"RapidSend", "SendWait"}
      THEN {SendArg(s) : s \in {t \in Subs : pc[t] # "unborn"}}
      ELSE {}

\* C8 as claimed: every value whose Send was called before any Cancel was
\* called is observable once the consumer has drained the channel to closure.
C8_EverySendBeforeCancelObservable ==
    pc[Consumer] = "closed" => \A v \in SendsBeforeCancel : Observable(v)

\* C8 as amended: every value whose Send took the mutex before the Cancel that
\* closes the channel did (the Send found canceled = false) is observable once
\* the consumer has drained the channel to closure.
C8_EveryAcceptedSendObservable ==
    pc[Consumer] = "closed" => \A v \in Values(accepted) : Observable(v)

\* the consumer drained the channel to closure; of the Sends called before any
\* Cancel was called, one was accepted and received and another was dropped
C8_Witness ==
    /\ pc[Consumer] = "closed"
    /\ received # <<>>
    /\ \E v \in SendsBeforeCancel : v \notin Values(accepted)

(* ------------------------------- C9 ------------------------------------ *)

\* the handler spawns NSub sub-goroutines that each call Send once and waits
\* for them, the consumer ranges over Receive(), and nobody else has canceled
WaitScenario ==
    /\ handlerKind = "SendWait"
    /\ consumerKind = "Range"
    /\ ~externalCancel

\* each of the values sent was received exactly once
AllReceivedOnce ==
    /\ Len(received) = NSub
    /\ Values(received) = {SendArg(s) : s \in Subs}

C9_AllBeforeCancel ==
    WaitScenario =>
        /\ hreturned => Len(accepted) = NSub
        /\ pc[Consumer] = "closed" => AllReceivedOnce

\* C9: with a handler that spawns NSub sub-goroutines each calling Send once
\* and waits for them, and a consumer ranging over Receive(), every value is
\* accepted before the handler returns to its automatic Cancel, the consumer
\* receives each value exactly once, and its loop ends (unless somebody else
\* calls Cancel).
C9_AllSubSendsArrive ==
    /\ []C9_AllBeforeCancel
    /\ (started /\ WaitScenario) ~> (externalCancel \/ pc[Consumer] = "closed")

\* the consumer's loop has ended with all the values received, and no Cancel
\* but the automatic one was made
C9_Witness ==
    /\ WaitScenario
    /\ pc[Consumer] = "closed"
    /\ AllReceivedOnce
    /\ pc[Handler] = "done"

(* ------------------------------- C10 ----------------------------------- *)

\* C10: with the handler  for i := 0; i < NLoop; i++ { Send(i); Cancel() }  no
\* panic is reached, the handler's Send never finds the channel full, and no
\* value but the first (i = 0) is ever accepted or received; when nobody but
\* the handler has called Cancel, a consumer that has observed the closure
\* has received exactly that one value.
C10_OnlyFirstValueDelivered ==
    handlerKind = "SendCancelLoop" =>
        /\ crash = "none"
        /\ pc[Handler] = "Send_write" => Len(buf) < ChanCap /\ ~closed
        /\ accepted \in {<<>>, <<0>>}
        /\ received \in {<<>>, <<0>>}
        /\ (pc[Consumer] = "closed" /\ ~externalCancel) => received = <<0>>

\* the loop has run to its end, only the handler called Cancel, and the
\* consumer received the value 0 and then observed the closure
C10_Witness ==
    /\ handlerKind = "SendCancelLoop"
    /\ hi = NLoop
    /\ ~externalCancel
    /\ pc[Consumer] = "closed"
    /\ received = <<0>>

(* ------------------------------- C11 ----------------------------------- *)

\* the task was canceled before any Start took effect
CanceledUnstarted == canceled /\ ~started

\* the task canceled before any Start is inert: no handler was launched, no
\* value was accepted, placed on the channel or received, lastResult is nil,
\* and once the Cancel call has returned the channel is closed
C11_Inert ==
    CanceledUnstarted =>
        /\ launches = 0
        /\ pc[Handler] = "unborn"
        /\ accepted = <<>> /\ buf = <<>> /\ received = <<>>
        /\ lastResult = Nil
        /\ cancelReturned => closed

\* on a task canceled before any Start, a step (a Start among them) leaves
\* started false and launches nothing, and a LastResult call returns nil
C11_StaysUnstarted ==
    CanceledUnstarted =>
        /\ ~started'
        /\ launches' = 0
        /\ \A c \in Clients : LastResult(c) => lastResultRet' = Nil

\* C11: if Cancel took effect before any Start, every later Start, called
\* directly or through StartBackground, leaves started false and never runs
\* the handler, the channel is closed and holds no value, and LastResult
\* returns nil.
C11_StartAfterCancelDoesNothing == []C11_Inert /\ [][C11_StaysUnstarted]_vars

\* a Cancel returned, then the Start of a StartBackground goroutine ran to its
\* end without starting the task, and the consumer found the channel closed
\* and empty
C11_Witness ==
    /\ CanceledUnstarted
    /\ cancelReturned
    /\ \E b \in Bgs : pc[b] = "finished"
    /\ pc[Consumer] = "closed"
    /\ received = <<>>

(* ------------------------------- C12 ----------------------------------- *)

\* the consumer's range loop over Receive() has ended: it observed the closure
ClosureObserved == pc[Consumer] = "closed"

\* an IsCanceled call that runs once the consumer has observed the closure
\* returns true
C12_ReturnsTrue ==
    \A c \in Clients : (ClosureObserved /\ IsCanceled(c)) => isCanceledRet' = TRUE

\* C12: whenever the consumer has observed the closure of the channel, the
\* task is canceled and every IsCanceled call made from then on returns true.
C12_IsCanceledAfterClosure ==
    /\ [](ClosureObserved => canceled)
    /\ [][C12_ReturnsTrue]_vars

\* the handler sent its values and returned, the consumer received them and
\* observed the closure, and an IsCanceled call has returned true
C12_Witness ==
    /\ ClosureObserved
    /\ started
    /\ received # <<>>
    /\ isCanceledRet = TRUE
    /\ \E c \in Clients : pc[c] = "finished"

(* ------------------------------- C13 ----------------------------------- *)

\* some Cancel is in the middle of its critical section: it has set canceled
\* and is about to close the channel, with the mutex held
CancelInCriticalSection ==
    \E a \in Clients \cup {Handler, Consumer} : pc[a] = "cancel_close" /\ mu = a

\* C13: in every state in which no Cancel is in the middle of its critical
\* section the channel is closed if and only if canceled is true; in the
\* middle of that section canceled is already true and the channel still open.
C13_ClosedIffCanceled ==
    /\ ~CancelInCriticalSection => (closed <=> canceled)
    /\ CancelInCriticalSection => (canceled /\ ~closed)
    /\ closed => canceled

\* a Cancel has closed the channel and released the mutex, and another
\* goroutine holds the mutex or could take it
C13_Witness ==
    /\ closed /\ canceled
    /\ cancelReturned
    /\ mu = NoOne
    /\ \E a \in Acts : pc[a] \in {"Send_lock", "Start_lock", "Cancel_lock", "idle"}

(* ------------------------------- C14 ----------------------------------- *)

\* the last value of a sequence, nil for the empty one
LastOf(q) == IF q = <<>> THEN Nil ELSE q[Len(q)]

\* the values placed on the channel so far, in order: the consumer is the
\* only reader, so they are the values it received and the buffered ones
Placed == received \o buf

\* a LastResult call that runs once the channel is closed returns the final
\* value placed on the channel, and a call at any time returns nil or a value
\* that a Send found the task not canceled for
C14_ReturnsFinal ==
    \A c \in Clients :
        LastResult(c) =>
            /\ closed => lastResultRet' = LastOf(Placed)
            /\ lastResultRet' \in Values(accepted) \cup {Nil}

\* C14: once the channel is closed, lastResult is the final value placed on
\* the channel before the closure, nil if none was placed, and that is what
\* LastResult returns; it is never a value of a Send that was dropped.
C14_LastResultIsFinalValue ==
    /\ [](closed => lastResult = LastOf(Placed))
    /\ [](lastResult \in Values(accepted) \cup {Nil})
    /\ [][C14_ReturnsFinal]_vars

\* the channel is closed, a Send that came after the cancellation was dropped,
\* and a LastResult call has returned the final value placed on the channel
C14_Witness ==
    /\ closed
    /\ Placed # <<>>
    /\ lastResultRet = LastOf(Placed)
    /\ \E s \in Subs : pc[s] = "done" /\ SendArg(s) \notin Values(accepted)

(* ------------------------------- C15 ----------------------------------- *)

\* the states of the task
Created == ~started /\ ~canceled
Started == started /\ ~canceled
Cancelled == canceled

\* canceled and started change only from false to true, the channel is never
\* reopened, and started does not become true once canceled is true
C15_Monotonic ==
    /\ canceled => canceled'
    /\ started => started'
    /\ closed => closed'
    /\ canceled => started' = started

\* once canceled is true the fields no longer change; the one exception is
\* the close(gc.send) of the Cancel that set canceled, which follows the
\* assignment inside the same critical section
C15_Terminal ==
    Cancelled =>
        /\ UNCHANGED <<canceled, started, lastResult>>
        /\ closed' # closed => (~closed /\ mu # NoOne /\ pc[mu] = "cancel_close")

\* C15: the task goes only Created -> Started, Created -> Cancelled and
\* Started -> Cancelled: canceled and started only go from false to true,
\* started never becomes true once canceled is, and once a Cancel has set
\* canceled and closed the channel none of canceled, started, lastResult and
\* the closed status changes again, whatever is called.
C15_CancelledIsTerminal == [][C15_Monotonic /\ C15_Terminal]_vars

\* the task went Created -> Started -> Cancelled; a Send that came after the
\* cancellation was dropped, and the Cancel of a client and the deferred
\* Cancel of the handler both returned, one of them without effect
C15_Witness ==
    /\ started /\ canceled /\ closed
    /\ lastResult # Nil
    /\ \E s \in Subs : pc[s] = "done" /\ SendArg(s) \notin Values(accepted)
    /\ consumerKind = "Range" /\ externalCancel
    /\ \A c \in Clients : pc[c] = "finished"
    /\ pc[Handler] = "done"

(* ------------------------------- C16 ----------------------------------- *)

\* the rank of value v in the order of acceptance, 0 for a value never accepted
Pos(v) ==
    IF v \in Values(accepted)
      THEN CHOOSE i \in 1..Len(accepted) : accepted[i] = v
      ELSE 0

\* value r is the same as, or was accepted later than, every value still
\* readable from the channel
NotOlderThanChannel(r) ==
    \A v \in Values(buf) : Pos(v) > 0 /\ Pos(r) >= Pos(v)

\* a Send that is about to place its value, or has just placed it, has
\* already assigned it to lastResult, and lastResult is never older than a
\* value still readable from the channel
C16_SetBeforePlaced ==
    /\ \A a \in Subs \cup {Handler} :
           pc[a] \in {"Send_write", "Send_unlock"} => lastResult = SendArg(a)
    /\ \A a \in Subs \cup {Handler} :
           pc[a] = "Send_write" => SendArg(a) \notin Values(Placed)
    /\ NotOlderThanChannel(lastResult)

\* the value a LastResult call returns is, at the moment it returns, not
\* older than any value still readable from the channel
C16_ReturnNotOlder ==
    \A c \in Clients : LastResult(c) => NotOlderThanChannel(lastResultRet')

\* C16: Send assigns lastResult before it attempts to place the value on the
\* channel, so whenever a LastResult call returns, the value returned is the
\* same as, or was accepted later than, any value still readable from the
\* channel.
C16_LastResultNotOlderThanChannel ==
    []C16_SetBeforePlaced /\ [][C16_ReturnNotOlder]_vars

\* two values were accepted, and a LastResult call returned the second while
\* it was still readable from the channel
C16_Witness ==
    /\ Len(accepted) = 2
    /\ buf = <<accepted[2]>>
    /\ lastResultRet = accepted[2]

(* ------------------------------- C17 ----------------------------------- *)

\* the Sends at the channel write, blocked on it or about to write
SendsAtWrite == {a \in Subs \cup {Handler} : pc[a] = "Send_write"}

\* q without its last element
Front(q) == SubSeq(q, 1, Len(q) - 1)

\* C17: as Send holds the mutex across the channel write, at most one Send
\* is at the channel write and it holds the mutex; the channel never holds
\* more than one value; the values placed on the channel are the accepted
\* ones in the order of their assignments to lastResult, all but the one of
\* the Send still at its write, so a consumer that has drained the channel to
\* its closure has received exactly the accepted sequence; and whenever the
\* mutex is free and the slot is occupied, the slot holds lastResult.
C17_SendsSerialized ==
    /\ Cardinality(SendsAtWrite) <= 1
    /\ \A a \in SendsAtWrite : mu = a
    /\ Len(buf) <= ChanCap
    /\ Placed = IF SendsAtWrite = {} THEN accepted ELSE Front(accepted)
    /\ pc[Consumer] = "closed" => received = accepted
    /\ (mu = NoOne /\ buf # <<>>) => buf = <<lastResult>>

\* the sub-goroutine spawned second took the mutex first, and the consumer,
\* having drained the channel to its closure, received both values in the
\* order of acceptance
C17_Witness ==
    /\ pc[Consumer] = "closed"
    /\ Len(accepted) = NSub
    /\ received = accepted
    /\ accepted[1] > accepted[2]

(* ------------------- the variant without the mutex --------------------- *)

(***************************************************************************)
(* src/unnamed/part_001 is the task without gc.mu: Cancel, Send and Start  *)
(* test the flags and then act, with nothing between the test and the act  *)
(* to keep other goroutines out, and Start runs the handler in its caller. *)
(* Each client goroutine makes one call of Cancel, Start or                *)
(* StartBackground, the sub-goroutines each call Send once, the consumer   *)
(* ranges over Receive().  The handler sends one value and returns.  The   *)
(* field mu and the goroutine Handler are not used.                        *)
(***************************************************************************)

\* the handler  func(ctx, c) { c.Send(result) }
LFHandlerKind == "SendOnce"

LFInit ==
    /\ GoRace
    /\ handlerKind = LFHandlerKind
    /\ consumerKind = "Range"
    /\ pc = [a \in Acts |->
               CASE Kind(a) = "client" -> "idle"
                 [] Kind(a) = "sub" -> "LF_Send"
                 [] Kind(a) = "consumer" -> "recv"
                 [] OTHER -> "unborn"]
    /\ isCanceledRet = FALSE
    /\ lastResultRet = Nil
    /\ hi = 0
    /\ hreturned = FALSE
    /\ crash = "none"
    /\ closes = 0
    /\ launches = 0
    /\ trueCancels = 0
    /\ falseFirst = FALSE
    /\ startBeforeCancel = FALSE
    /\ externalCancel = FALSE
    /\ cancelReturned = FALSE
    /\ accepted = <<>>
    /\ received = <<>>

\* IsCanceled: return gc.canceled, read without synchronisation while other
\* goroutines may write it: the read yields the current value or the stale
\* initial one
LF_IsCanceled == {canceled, FALSE}

\* gc.started, read without synchronisation in the same way
LF_ReadStarted == {started, FALSE}

\* a client goroutine calls Cancel
LF_CallCancel(c) ==
    /\ At(c, "idle")
    /\ Goto(c, "LF_Cancel")
    /\ externalCancel' = TRUE
    /\ UNCHANGED prog
    /\ UNCHANGED <<isCanceledRet, lastResultRet, hi, hreturned, handlerKind, consumerKind,
                   crash>>
    /\ UNCHANGED <<closes, launches, trueCancels, falseFirst, startBeforeCancel,
                   cancelReturned, accepted, received>>

\* Cancel: if !gc.IsCanceled() { ... } else { return false }
LF_Cancel_Test(a) ==
    /\ At(a, "LF_Cancel")
    /\ \E seen \in LF_IsCanceled :
          IF ~seen
            THEN /\ Goto(a, "LF_Cancel_set")
                 /\ UNCHANGED <<falseFirst, cancelReturned>>
            ELSE /\ Goto(a, "finished")
                 /\ falseFirst' = (falseFirst \/ trueCancels = 0)
                 /\ cancelReturned' = TRUE
    /\ UNCHANGED prog
    /\ UNCHANGED <<isCanceledRet, lastResultRet, hi, hreturned, handlerKind, consumerKind,
                   crash>>
    /\ UNCHANGED <<closes, launches, trueCancels, startBeforeCancel, externalCancel,
                   accepted, received>>

\* Cancel: gc.canceled = true
LF_Cancel_Set(a) ==
    /\ At(a, "LF_Cancel_set")
    /\ canceled' = TRUE
    /\ Goto(a, "LF_Cancel_close")
    /\ UNCHANGED <<started, lastResult, mu, buf, closed>>
    /\ UNCHANGED <<isCanceledRet, lastResultRet, hi, hreturned, handlerKind, consumerKind,
                   crash>>
    /\ UNCHANGED hist

\* Cancel: close(gc.send); return true.  Closing a closed channel panics.
LF_Cancel_Close(a) ==
    /\ At(a, "LF_Cancel_close")
    /\ closes' = closes + 1
    /\ IF closed
         THEN /\ crash' = "close of closed channel"
              /\ UNCHANGED <<closed, pc, trueCancels, cancelReturned>>
         ELSE /\ closed' = TRUE
              /\ trueCancels' = trueCancels + 1
              /\ cancelReturned' = TRUE
              /\ Goto(a, "finished")
              /\ UNCHANGED crash
    /\ UNCHANGED <<canceled, started, lastResult, mu, buf>>
    /\ UNCHANGED <<isCanceledRet, lastResultRet, hi, hreturned, handlerKind, consumerKind>>
    /\ UNCHANGED <<launches, falseFirst, startBeforeCancel, externalCancel,
                   accepted, received>>

LF_Cancel(a) == LF_Cancel_Test(a) \/ LF_Cancel_Set(a) \/ LF_Cancel_Close(a)

\* where a goroutine continues when its Send has returned: a sub-goroutine
\* ends; in a caller of Start the Send was the handler's, the handler returns
\* and the deferred gc.Cancel() of Start runs
LF_AfterSend(a) == IF Kind(a) = "sub" THEN "done" ELSE "LF_Cancel"

\* Send: if !gc.IsCanceled() { ... }
LF_Send_Test(a) ==
    /\ At(a, "LF_Send")
    /\ \E seen \in LF_IsCanceled :
          IF ~seen THEN Goto(a, "LF_Send_set") ELSE Goto(a, LF_AfterSend(a))
    /\ UNCHANGED prog
    /\ UNCHANGED <<isCanceledRet, lastResultRet, hi, hreturned, handlerKind, consumerKind,
                   crash>>
    /\ UNCHANGED hist

\* Send: gc.lastResult = result
LF_Send_Set(a) ==
    /\ At(a, "LF_Send_set")
    /\ lastResult' = SendArg(a)
    /\ accepted' = Append(accepted, SendArg(a))
    /\ Goto(a, "LF_Send_write")
    /\ UNCHANGED <<canceled, started, mu, buf, closed>>
    /\ UNCHANGED <<isCanceledRet, lastResultRet, hi, hreturned, handlerKind, consumerKind,
                   crash>>
    /\ UNCHANGED <<closes, launches, trueCancels, falseFirst, startBeforeCancel,
                   externalCancel, cancelReturned, received>>

\* Send: gc.send <- result: blocks while the buffer is full, panics on a
\* closed channel
LF_Send_Write(a) ==
    /\ At(a, "LF_Send_write")
    /\ IF closed
         THEN /\ crash' = "send on closed channel"
              /\ UNCHANGED <<buf, pc>>
         ELSE /\ Len(buf) < ChanCap
              /\ buf' = Append(buf, SendArg(a))
              /\ Goto(a, LF_AfterSend(a))
              /\ UNCHANGED crash
    /\ UNCHANGED <<canceled, started, lastResult, mu, closed>>
    /\ UNCHANGED <<isCanceledRet, lastResultRet, hi, hreturned, handlerKind, consumerKind>>
    /\ UNCHANGED hist

LF_Send(a) == LF_Send_Test(a) \/ LF_Send_Set(a) \/ LF_Send_Write(a)

\* Start: if !gc.IsCanceled() && !gc.started { ... }; return gc.  The two
\* reads are the goroutine's own consecutive steps and canceled never goes
\* back to false, so they are taken at the moment of the second
LF_Start_Test(a) ==
    /\ At(a, Entry(a, "LF_Start"))
    /\ \E seenCanceled \in LF_IsCanceled, seenStarted \in LF_ReadStarted :
          IF ~seenCanceled /\ ~seenStarted
            THEN Goto(a, "LF_Start_set")
            ELSE Goto(a, "finished")
    /\ startBeforeCancel' = (startBeforeCancel \/ ~canceled)
    /\ UNCHANGED prog
    /\ UNCHANGED <<isCanceledRet, lastResultRet, hi, hreturned, handlerKind, consumerKind,
                   crash>>
    /\ UNCHANGED <<closes, launches, trueCancels, falseFirst, externalCancel,
                   cancelReturned, accepted, received>>

\* Start: defer gc.Cancel(); gc.started = true; gc.handler(ctx, gc): the
\* handler runs in the caller of Start and begins with its call of Send
LF_Start_Set(a) ==
    /\ At(a, "LF_Start_set")
    /\ started' = TRUE
    /\ launches' = launches + 1
    /\ Goto(a, "LF_Send")
    /\ UNCHANGED <<canceled, lastResult, mu, buf, closed>>
    /\ UNCHANGED <<isCanceledRet, lastResultRet, hi, hreturned, handlerKind, consumerKind,
                   crash>>
    /\ UNCHANGED <<closes, trueCancels, falseFirst, startBeforeCancel, externalCancel,
                   cancelReturned, accepted, received>>

LF_Start(a) == LF_Start_Test(a) \/ LF_Start_Set(a)

\* StartBackground: go gc.Start(ctx); return gc
LF_StartBackground(c) ==
    /\ At(c, "idle")
    /\ pc' = [pc EXCEPT ![c] = "finished", ![<<"bg", c[2]>>] = "LF_Start"]
    /\ UNCHANGED prog
    /\ UNCHANGED <<isCanceledRet, lastResultRet, hi, hreturned, handlerKind, consumerKind,
                   crash>>
    /\ UNCHANGED hist

LFNext ==
    \/ \E c \in Clients : LF_CallCancel(c)
    \/ \E a \in Clients \cup Bgs : LF_Cancel(a)
    \/ \E a \in Subs \cup Clients \cup Bgs : LF_Send(a)
    \/ \E a \in Clients \cup Bgs : LF_Start(a)
    \/ \E c \in Clients : LF_StartBackground(c)
    \/ Receive

LFSpec == LFInit /\ [][LFNext]_vars

(* ------------------------------- C18 ----------------------------------- *)

\* a Send of the variant is at its channel write
LFSendAtWrite == \E a \in Acts : pc[a] = "LF_Send_write"

\* C18: in the variant without the mutex, concurrent Cancel calls never
\* execute close(gc.send) more than once, and a Send running concurrently
\* with a Cancel is never at its channel write once the channel is closed:
\* neither panic of the channel is reached.
C18_LockFreeNeverPanics ==
    /\ closes <= 1
    /\ crash = "none"
    /\ ~(closed /\ LFSendAtWrite)

====
